---- MODULE Spec2Model ----
(***************************************************************************)
(* Model of apollo-cli's transcode engine (src/transcode.py): the source   *)
(* validator check_flacs, the resample planner compute_resample, the tag   *)
(* propagator copy_tags, the ancillary copier copy_files and the           *)
(* orchestrator transcode with its rollback of the destination tree.       *)
(***************************************************************************)
EXTENDS Integers, Sequences, FiniteSets, TLC

(***************************************************************************)
(* Bounds of the model.                                                    *)
(***************************************************************************)
MaxTracks == 2
MaxCandidates == 2
MaxLimit == 2
MaxFiles == 3
CpuCount == 2

(***************************************************************************)
(* Program constants.                                                      *)
(***************************************************************************)
ALLOWED_EXTENSIONS ==
    {".cue", ".gif", ".jpeg", ".jpg", ".log", ".md5", ".nfo", ".pdf",
     ".png", ".sfv", ".txt"}

REQUIRED_TAGS == {"title", "tracknumber", "artist", "album"}

Rate44 == 44100
Rate48 == 48000
MaxChannels == 2
CdBits == 16

\* formats.FormatFlac.SUFFIX and the target format's SUFFIX
FlacSuffix == ".flac"
TargetSuffix == ".mp3"

(***************************************************************************)
(* State.                                                                  *)
(***************************************************************************)
VARIABLES
    \* one call of a pure function: which one, its argument, its result
    fn, arg, res, returned,
    \* transcode(src, dst, target_format, njobs)
    pc, err, njobs, dstExisted, parentIsDir, srcFlacs, srcAnc,
    files, flacs, resample, jobs, pipe, mp3tags, steps,
    \* the destination tree: whether dst exists, the directories and the
    \* files below it
    dstExists, dstDirs, dstFiles,
    \* copy_files(src_dir, dst_dir, suffixes)
    cfpc, cfErr, cfSrc, cfSuffixes, cfDirs, cfTodo, cfCreated, cfWarnings,
    \* ApolloBetter: the configuration, run(limit), process_release and
    \* process_format
    continue_on_error, unique_groups, limit, candidates,
    bpc, berr, retval, ci, run_n, rel_limit, rel_n, rel_todo, cur,
    \* the output directories, the temporary .torrent files and torrent_dir
    outDirs, tmpFiles, torrentDir,
    \* what the run has done so far: successful uploads, calls of transcode,
    \* process_format calls that returned True, saves of the API cache
    uploads, transcodes, trues, cacheSaves

fnvars == <<fn, arg, res, returned>>
bcfg == <<continue_on_error, unique_groups, limit, candidates>>
bloop == <<ci, run_n, rel_limit, rel_n, rel_todo, cur>>
bfs == <<outDirs, tmpFiles, torrentDir>>
bdone == <<uploads, transcodes, trues, cacheSaves>>
bvars == <<bcfg, bpc, berr, retval, bloop, bfs, bdone>>
\* transcode and the functions it calls leave the state of ApolloBetter alone
tvars == <<pc, err, njobs, dstExisted, parentIsDir, srcFlacs, srcAnc,
           files, flacs, resample, jobs, pipe, mp3tags, steps, bvars>>
tconst == <<njobs, dstExisted, parentIsDir, srcFlacs, srcAnc, bvars>>
dvars == <<dstExists, dstDirs, dstFiles>>
cfvars == <<cfpc, cfErr, cfSrc, cfSuffixes, cfDirs, cfTodo, cfCreated,
            cfWarnings>>
vars == <<fnvars, tvars, dvars, cfvars>>
\* ApolloBetter's own steps leave all of this alone
tother == <<fnvars, pc, err, njobs, dstExisted, parentIsDir, srcFlacs, srcAnc,
            files, flacs, resample, jobs, pipe, mp3tags, steps, dvars, cfvars>>

(***************************************************************************)
(* Values of the model.                                                    *)
(***************************************************************************)
\* Python's None for a rate or a worker count
None == 0

\* a tag value as mutagen hands it out: a non-empty list of strings
TagValues == {<<"">>, <<"", "">>, <<"a">>}

GoodTags == [k \in REQUIRED_TAGS |-> <<"a">>]

\* the good tags without key k
DropKey(t, k) == [x \in (DOMAIN t) \ {k} |-> t[x]]

\* tag maps that differ from GoodTags in at most one required key: the key is
\* absent or holds another value
TagMaps ==
    {GoodTags}
    \cup {DropKey(GoodTags, k) : k \in REQUIRED_TAGS}
    \cup {[GoodTags EXCEPT ![k] = v] : k \in REQUIRED_TAGS, v \in TagValues}

Flac(c, b, r, t) ==
    [channels |-> c, bits_per_sample |-> b, sample_rate |-> r, tags |-> t]

\* sequences over S of length 0..n
RECURSIVE SeqsUpTo(_, _)
SeqsUpTo(S, n) ==
    IF n = 0 THEN {<<>>}
    ELSE LET shorter == SeqsUpTo(S, n - 1)
         IN  shorter \cup {Append(s, x) : s \in {q \in shorter : Len(q) = n - 1}, x \in S}

(***************************************************************************)
(* check_tags: True iff every file holds every required tag, where a tag   *)
(* counts as missing when its key is absent or its value is [""].          *)
(***************************************************************************)
TagAbsentOrBlank(f, tag) ==
    tag \notin DOMAIN f.tags \/ f.tags[tag] = <<"">>

check_tags(fs) ==
    \A i \in 1..Len(fs) : ~(\E tag \in REQUIRED_TAGS : TagAbsentOrBlank(fs[i], tag))

(***************************************************************************)
(* compute_resample: the target rate, None, or TranscodeError.             *)
(***************************************************************************)
NeedsResampleAt16(bits, rate) ==
    bits >= CdBits \/ ~(rate = Rate44 \/ rate = Rate48)

NeedsResample(bits, rate) ==
    bits > CdBits \/ ~(rate = Rate44 \/ rate = Rate48)

compute_resample(flac) ==
    LET bits == flac.bits_per_sample
        rate == flac.sample_rate
    IN  IF NeedsResample(bits, rate)
        THEN IF rate % Rate44 = 0 THEN [kind |-> "rate", rate |-> Rate44]
             ELSE IF rate % Rate48 = 0 THEN [kind |-> "rate", rate |-> Rate48]
             ELSE [kind |-> "TranscodeError", rate |-> None]
        ELSE [kind |-> "none", rate |-> None]

(***************************************************************************)
(* check_flacs: the description of the first problem, "None", or the       *)
(* IndexError of flacs[0] on an empty list.                                *)
(***************************************************************************)
MsgChannels == "More than 2 channels are not supported."
MsgInconsistent == "Inconsistent sample rate or bit depth"
MsgRate == "Unsupported Rate"
MsgTags == "One or more required tags are missing."

CheckChannels(fl) ==
    \E i \in 1..Len(fl) : fl[i].channels > MaxChannels

\* only the bit depth is compared with the first track's
CheckConsistentBitsOnly(fl) ==
    \E i \in 1..Len(fl) : fl[i].bits_per_sample # fl[1].bits_per_sample

CheckConsistent(fl) ==
    LET bits == fl[1].bits_per_sample
        rate == fl[1].sample_rate
    IN  \E i \in 1..Len(fl) :
            fl[i].bits_per_sample # bits \/ fl[i].sample_rate # rate

check_flacs_consistency_first(fl) ==
    IF Len(fl) = 0 THEN "IndexError"
    ELSE IF CheckConsistent(fl) THEN MsgInconsistent
    ELSE IF CheckChannels(fl) THEN MsgChannels
    ELSE IF compute_resample(fl[1]).kind = "TranscodeError" THEN MsgRate
    ELSE IF ~check_tags(fl) THEN MsgTags
    ELSE "None"

check_flacs(fl) ==
    IF CheckChannels(fl) THEN MsgChannels
    ELSE IF Len(fl) = 0 THEN "IndexError"
    ELSE IF CheckConsistent(fl) THEN MsgInconsistent
    ELSE IF compute_resample(fl[1]).kind = "TranscodeError" THEN MsgRate
    ELSE IF ~check_tags(fl) THEN MsgTags
    ELSE "None"

(***************************************************************************)
(* copy_tags: the tags of dst after the copy and the save.                 *)
(***************************************************************************)
\* EasyID3.valid_keys: mutagen's own keys that the model uses, and the keys
\* the module registers when it is loaded
EasyID3Registered ==
    {"albumartist", "album artist", "grouping", "content group", "comment",
     "description", "originaldate", "original release date"}

EasyID3ValidKeys ==
    {"title", "tracknumber", "artist", "album", "genre", "date"}
    \cup EasyID3Registered

valid_tag_fn(kind, k) ==
    IF kind = "EasyMP3" THEN k \in EasyID3ValidKeys ELSE TRUE

\* Python's == between the list that src[tag] is and a str: never equal
ListEqualsStr(value, s) == FALSE

\* the tags the loop assigns to dst
CopiedKeys(src, kind) ==
    {tag \in DOMAIN src : valid_tag_fn(kind, tag) /\ ~ListEqualsStr(src[tag], "")}

copy_tags(src, dst, kind) ==
    [k \in (DOMAIN dst) \cup CopiedKeys(src, kind) |->
        IF k \in CopiedKeys(src, kind) THEN src[k] ELSE dst[k]]

(***************************************************************************)
(* Paths and trees.  A file is its directory relative to the root of its   *)
(* tree, its stem, its suffix (pathlib's) and its content; a directory     *)
(* entry carries its own relative path in dir.                             *)
(***************************************************************************)
File(d, st, su, c) ==
    [isdir |-> FALSE, dir |-> d, stem |-> st, suffix |-> su, content |-> c]

DirEntry(d) ==
    [isdir |-> TRUE, dir |-> d, stem |-> "", suffix |-> "", content |-> ""]

SamePath(f, g) ==
    f.dir = g.dir /\ f.stem = g.stem /\ f.suffix = g.suffix

\* the directories d.parent.mkdir(parents=True) makes sure of, below the root
Parents(d) == {SubSeq(d, 1, n) : n \in 1..Len(d)}

\* the tree after a file is written at the path of f with content c
WriteFile(tree, f, c) ==
    {g \in tree : ~SamePath(g, f)} \cup {File(f.dir, f.stem, f.suffix, c)}

\* iterdir(): the sub-directories and the files right below directory d
IterDir(tree, d) ==
    {DirEntry(SubSeq(f.dir, 1, Len(d) + 1)) :
        f \in {g \in tree : Len(g.dir) > Len(d) /\ SubSeq(g.dir, 1, Len(d)) = d}}
    \cup {f \in tree : f.dir = d}

\* the suffixes argument: None or a set of suffixes
SuffixNone == [none |-> TRUE, set |-> {}]
SuffixSet(S) == [none |-> FALSE, set |-> S]

(***************************************************************************)
(* copy_files, one step of the walk at a time.                             *)
(***************************************************************************)
\* elif suffixes is None or x.suffix in suffixes
ShouldCopy(x, suffixes) ==
    suffixes.none \/ x.suffix \in suffixes.set

\* d = dst_dir / x.name: the file lands in the root of the destination
DestPathFlat(x) == File(<<>>, x.stem, x.suffix, x.content)

\* d = dst_dir / x.relative_to(src_dir)
DestPath(x) == File(x.dir, x.stem, x.suffix, x.content)

\* what the copy of one file can do: copy everything, fail at mkdir, fail in
\* copyfile, or copy the content and fail in copystat
CopyOutcomes ==
    {"ok", "mkdir OSError", "copyfile OSError", "copystat PermissionError",
     "copystat OSError"}

\* the call: if not dst_dir.is_dir(): return
CopyFilesEnter ==
    /\ cfpc = "called"
    /\ IF ~dstExists
       THEN cfpc' = "returned" /\ UNCHANGED cfDirs
       ELSE cfpc' = "walk" /\ cfDirs' = <<(<<>>)>>
    /\ UNCHANGED <<cfErr, cfSrc, cfSuffixes, cfTodo, cfCreated, cfWarnings>>
    /\ UNCHANGED <<fnvars, tvars, dvars>>

\* while dirs: for x in dirs.pop().iterdir()
CopyFilesPop ==
    /\ cfpc = "walk"
    /\ cfTodo = {}
    /\ cfDirs # <<>>
    /\ cfTodo' = IterDir(cfSrc, cfDirs[Len(cfDirs)])
    /\ cfDirs' = SubSeq(cfDirs, 1, Len(cfDirs) - 1)
    /\ UNCHANGED <<cfpc, cfErr, cfSrc, cfSuffixes, cfCreated, cfWarnings>>
    /\ UNCHANGED <<fnvars, tvars, dvars>>

\* the loop body for one entry x of the directory being listed
CopyFilesVisit ==
    /\ cfpc = "walk"
    /\ \E x \in cfTodo :
        /\ cfTodo' = cfTodo \ {x}
        /\ IF x.isdir
           THEN /\ cfDirs' = Append(cfDirs, x.dir)
                /\ UNCHANGED <<cfpc, cfErr, cfCreated, cfWarnings, dvars>>
           ELSE IF ~ShouldCopy(x, cfSuffixes)
           THEN UNCHANGED <<cfpc, cfErr, cfDirs, cfCreated, cfWarnings, dvars>>
           ELSE \E o \in CopyOutcomes :
                LET d == DestPath(x)
                IN  /\ dstDirs' = IF o = "mkdir OSError" THEN dstDirs
                                  ELSE dstDirs \cup Parents(d.dir)
                    /\ dstFiles' =
                          IF o = "mkdir OSError" THEN dstFiles
                          ELSE IF o = "copyfile OSError"
                          THEN WriteFile(dstFiles, d, "partial")
                          ELSE WriteFile(dstFiles, d, x.content)
                    /\ cfCreated' = IF o = "mkdir OSError" THEN cfCreated
                                    ELSE cfCreated \cup {d}
                    /\ cfWarnings' = IF o = "copystat PermissionError"
                                     THEN cfWarnings + 1 ELSE cfWarnings
                    /\ IF o \in {"ok", "copystat PermissionError"}
                       THEN UNCHANGED <<cfpc, cfErr>>
                       ELSE cfpc' = "raised" /\ cfErr' = o
                    /\ UNCHANGED <<cfDirs, dstExists>>
    /\ UNCHANGED <<cfSrc, cfSuffixes>>
    /\ UNCHANGED <<fnvars, tvars>>

\* the walk is over: dirs is empty
CopyFilesReturn ==
    /\ cfpc = "walk"
    /\ cfTodo = {}
    /\ cfDirs = <<>>
    /\ cfpc' = "returned"
    /\ UNCHANGED <<cfErr, cfSrc, cfSuffixes, cfDirs, cfTodo, cfCreated, cfWarnings>>
    /\ UNCHANGED <<fnvars, tvars, dvars>>

(***************************************************************************)
(* Idle values of the parts of the state a specification does not use.     *)
(***************************************************************************)
NoError == [type |-> "none", cause |-> "none", at |-> "none"]

IdleFn ==
    /\ fn = "none"
    /\ arg = <<>>
    /\ res = <<>>
    /\ returned = FALSE

IdleTranscode ==
    /\ pc = "idle"
    /\ err = NoError
    /\ njobs = None
    /\ dstExisted = FALSE
    /\ parentIsDir = FALSE
    /\ srcFlacs = <<>>
    /\ srcAnc = {}
    /\ files = <<>>
    /\ flacs = <<>>
    /\ resample = [kind |-> "none", rate |-> None]
    /\ jobs = <<>>
    /\ pipe = <<>>
    /\ mp3tags = <<>>
    /\ steps = <<>>

IdleBetter ==
    /\ continue_on_error = FALSE
    /\ unique_groups = FALSE
    /\ limit = 0
    /\ candidates = <<>>
    /\ bpc = "idle"
    /\ berr = NoError
    /\ retval = 0
    /\ ci = 0
    /\ run_n = 0
    /\ rel_limit = 0
    /\ rel_n = 0
    /\ rel_todo = {}
    /\ cur = "none"
    /\ outDirs = {}
    /\ tmpFiles = {}
    /\ torrentDir = {}
    /\ uploads = 0
    /\ transcodes = 0
    /\ trues = 0
    /\ cacheSaves = 0

IdleDst ==
    /\ dstExists = FALSE
    /\ dstDirs = {}
    /\ dstFiles = {}

IdleCopyFiles ==
    /\ cfpc = "idle"
    /\ cfErr = "none"
    /\ cfSrc = {}
    /\ cfSuffixes = SuffixSet(ALLOWED_EXTENSIONS)
    /\ cfDirs = <<>>
    /\ cfTodo = {}
    /\ cfCreated = {}
    /\ cfWarnings = 0

(***************************************************************************)
(* transcode(src, dst, target_format, njobs).                              *)
(***************************************************************************)
TrackStems == <<"01", "02", "03", "04">>

\* the i-th file of src.glob("**/*.flac"): even tracks lie in a sub-directory
TrackFile(i) ==
    File(IF i % 2 = 0 THEN <<"CD2">> ELSE <<>>, TrackStems[i], FlacSuffix,
         "flac audio")

\* dst / f.relative_to(src).with_suffix(target_format.SUFFIX)
TranscodedFile(f) == File(f.dir, f.stem, TargetSuffix, "mp3 audio")

\* what dst holds when it exists before the call
InitialDstFiles(existed) ==
    IF existed THEN {File(<<>>, "old", TargetSuffix, "old audio")} ELSE {}

\* the resample plan is ignored: every track is only decoded
generate_transcode_cmds_decode_only(f_src, f_dst, plan) ==
    <<[prog |-> "flac", file |-> f_src, rate |-> None],
      [prog |-> "encode", file |-> f_dst, rate |-> None]>>

\* the two stages of one pipeline
generate_transcode_cmds(f_src, f_dst, plan) ==
    <<IF plan.kind = "rate"
      THEN [prog |-> "sox", file |-> f_src, rate |-> plan.rate]
      ELSE [prog |-> "flac", file |-> f_src, rate |-> None],
      [prog |-> "encode", file |-> f_dst, rate |-> None]>>

\* raise before the try block: nothing is undone
Raise(type, at) ==
    /\ pc' = "raised"
    /\ err' = [type |-> type, cause |-> type, at |-> at]

\* shutil.rmtree(dst)
Rollback ==
    /\ dstExists' = FALSE
    /\ dstDirs' = {}
    /\ dstFiles' = {}

\* except: raise, with no rmtree
HandleFailureNoRollback(e, at) ==
    /\ IF e = "PipelineError" THEN Rollback ELSE UNCHANGED dvars
    /\ pc' = "raised"
    /\ err' = [type |-> IF e = "PipelineError" THEN "TranscodeError" ELSE e,
               cause |-> e, at |-> at]

\* except: pass, the failure is swallowed
HandleFailureSwallow(e, at) ==
    /\ UNCHANGED dvars
    /\ pc' = "done"
    /\ err' = err

\* except PipelineError: pass, and the tag copy goes ahead
HandleFailureContinue(e, at) ==
    /\ UNCHANGED dvars
    /\ pc' = "tag"
    /\ err' = err

\* except Exception as e: raise TranscodeError(str(e)) for every failure
HandleFailureWrapAll(e, at) ==
    /\ Rollback
    /\ pc' = "raised"
    /\ err' = [type |-> "TranscodeError", cause |-> e, at |-> at]

\* the two except clauses around the run, the tag copy and the ancillary copy
HandleFailure(e, at) ==
    /\ Rollback
    /\ pc' = "raised"
    /\ err' = [type |-> IF e = "PipelineError" THEN "TranscodeError" ELSE e,
               cause |-> e, at |-> at]

GuardRejectsExistingOnly(exists, parentDir) == exists

\* the entry guard: dst.exists() or not dst.parent.is_dir()
GuardRejects(exists, parentDir) == exists \/ ~parentDir

ValidationFailsOnChannels(msg) == msg = MsgChannels

\* if msg is not None
ValidationFails(msg) == msg # "None"

TranscodeGuard ==
    /\ pc = "called"
    /\ IF GuardRejects(dstExists, parentIsDir)
       THEN Raise("TranscodeError", "guard")
       ELSE pc' = "read" /\ UNCHANGED err
    /\ UNCHANGED <<tconst, files, flacs, resample, jobs, pipe, mp3tags, steps>>
    /\ UNCHANGED <<fnvars, dvars, cfvars>>

\* the glob and mutagen.flac.FLAC(f) for every file, which can raise
TranscodeRead ==
    /\ pc = "read"
    /\ steps' = Append(steps, "Reading")
    /\ files' = [i \in 1..Len(srcFlacs) |-> TrackFile(i)]
    /\ \E ok \in {TRUE} \cup {b \in {FALSE} : Len(srcFlacs) > 0} :
          IF ok
          THEN flacs' = srcFlacs /\ pc' = "validate" /\ UNCHANGED err
          ELSE Raise("MutagenError", "read") /\ UNCHANGED flacs
    /\ UNCHANGED <<tconst, resample, jobs, pipe, mp3tags>>
    /\ UNCHANGED <<fnvars, dvars, cfvars>>

TranscodeValidate ==
    /\ pc = "validate"
    /\ steps' = Append(steps, "Validating")
    /\ LET msg == check_flacs(flacs)
       IN  IF msg = "IndexError" THEN Raise("IndexError", "validate")
           ELSE IF ValidationFails(msg) THEN Raise("TranscodeError", "validate")
           ELSE pc' = "plan" /\ UNCHANGED err
    /\ UNCHANGED <<tconst, files, flacs, resample, jobs, pipe, mp3tags>>
    /\ UNCHANGED <<fnvars, dvars, cfvars>>

TranscodePlan ==
    /\ pc = "plan"
    /\ steps' = Append(steps, "Planning")
    /\ LET plan == IF Len(flacs) = 0 THEN [kind |-> "IndexError", rate |-> None]
                   ELSE compute_resample(flacs[1])
       IN  IF plan.kind \in {"TranscodeError", "IndexError"}
           THEN Raise(plan.kind, "plan") /\ UNCHANGED resample
           ELSE resample' = plan /\ pc' = "mkdir" /\ UNCHANGED err
    /\ UNCHANGED <<tconst, files, flacs, jobs, pipe, mp3tags>>
    /\ UNCHANGED <<fnvars, dvars, cfvars>>

\* dst.mkdir(): it works, or PermissionError becomes a TranscodeError, or
\* another OSError goes to the caller as it is
TranscodeMkdir ==
    /\ pc = "mkdir"
    /\ steps' = Append(steps, "CreatingDestination")
    /\ \E o \in {"PermissionError", "OSError"} \cup {x \in {"ok"} : parentIsDir} :
          IF o = "ok"
          THEN /\ dstExists' = TRUE
               /\ pc' = "build"
               /\ UNCHANGED <<err, dstDirs, dstFiles>>
          ELSE /\ pc' = "raised"
               /\ err' = [type |-> IF o = "PermissionError"
                                   THEN "TranscodeError" ELSE o,
                          cause |-> o, at |-> "mkdir"]
               /\ UNCHANGED dvars
    /\ UNCHANGED <<tconst, files, flacs, resample, jobs, pipe, mp3tags>>
    /\ UNCHANGED <<fnvars, cfvars>>

\* one round of the loop that makes the parent directory of a transcoded
\* file and builds its pipeline; the mkdir can raise, outside any try
TranscodeBuild ==
    /\ pc = "build"
    /\ Len(jobs) < Len(files)
    /\ steps' = IF Len(jobs) = 0 THEN Append(steps, "BuildingPipelines") ELSE steps
    /\ LET i == Len(jobs) + 1
           f_dst == TranscodedFile(files[i])
       IN  \E o \in {"ok", "OSError"} :
             IF o = "ok"
             THEN /\ dstDirs' = dstDirs \cup Parents(f_dst.dir)
                  /\ jobs' = Append(jobs, generate_transcode_cmds(files[i], f_dst, resample))
                  /\ pipe' = Append(pipe, "pending")
                  /\ pc' = IF i = Len(files) THEN "run" ELSE "build"
                  /\ UNCHANGED <<err, dstExists, dstFiles>>
             ELSE /\ Raise(o, "build")
                  /\ UNCHANGED <<jobs, pipe, dvars>>
    /\ UNCHANGED <<tconst, files, flacs, resample, mp3tags>>
    /\ UNCHANGED <<fnvars, cfvars>>

(***************************************************************************)
(* run_pipelines(jobs): the executor of pipeline.py, which is called       *)
(* without a worker count and so runs with its default.                    *)
(***************************************************************************)
Workers == CpuCount

Running == {i \in 1..Len(pipe) : pipe[i] = "running"}

PipelineStart ==
    /\ pc = "run"
    /\ Cardinality(Running) < Workers
    /\ \E i \in 1..Len(pipe) :
        /\ pipe[i] = "pending"
        /\ pipe' = [pipe EXCEPT ![i] = "running"]
        /\ dstFiles' = WriteFile(dstFiles, jobs[i][2].file, "partial")
    /\ steps' = IF \A i \in 1..Len(pipe) : pipe[i] = "pending"
                THEN Append(steps, "Transcoding") ELSE steps
    /\ UNCHANGED <<pc, err, tconst, files, flacs, resample, jobs, mp3tags>>
    /\ UNCHANGED <<dstExists, dstDirs>>
    /\ UNCHANGED <<fnvars, cfvars>>

\* every stage of pipeline i exits 0; run_pipelines returns after the last
PipelineExit ==
    /\ pc = "run"
    /\ \E i \in Running :
        /\ pipe' = [pipe EXCEPT ![i] = "ok"]
        /\ dstFiles' = WriteFile(dstFiles, jobs[i][2].file, "mp3 audio")
    /\ pc' = IF \A j \in 1..Len(pipe) : pipe'[j] = "ok" THEN "tag" ELSE "run"
    /\ UNCHANGED <<err, tconst, files, flacs, resample, jobs, mp3tags, steps>>
    /\ UNCHANGED <<dstExists, dstDirs>>
    /\ UNCHANGED <<fnvars, cfvars>>

\* a stage of pipeline i fails: the pipelines in flight are killed and
\* PipelineError reaches the except clause of transcode
PipelineFail ==
    /\ pc = "run"
    /\ \E i \in Running :
        pipe' = [j \in 1..Len(pipe) |->
                    IF j = i THEN "failed"
                    ELSE IF pipe[j] = "running" THEN "killed" ELSE pipe[j]]
    /\ HandleFailure("PipelineError", "pipeline")
    /\ UNCHANGED <<tconst, files, flacs, resample, jobs, mp3tags, steps>>
    /\ UNCHANGED <<fnvars, cfvars>>

\* copy_tags(flac, mutagen.mp3.EasyMP3(transcode)) for the next track; after
\* the last track copy_files(src, dst, ALLOWED_EXTENSIONS) is called
TranscodeTag ==
    /\ pc = "tag"
    /\ Len(mp3tags) < Len(flacs)
    /\ steps' = IF Len(mp3tags) = 0 THEN Append(steps, "Tagging") ELSE steps
    /\ LET i == Len(mp3tags) + 1
       IN  \E o \in {"ok", "MutagenError"} :
             IF o = "ok"
             THEN /\ mp3tags' = Append(mp3tags, copy_tags(flacs[i].tags, <<>>, "EasyMP3"))
                  /\ UNCHANGED <<err, dvars>>
                  /\ IF i = Len(flacs)
                     THEN /\ pc' = "ancillary"
                          /\ cfpc' = "called"
                          /\ cfErr' = "none"
                          /\ cfSrc' = srcAnc \cup {files[j] : j \in 1..Len(files)}
                          /\ cfSuffixes' = SuffixSet(ALLOWED_EXTENSIONS)
                          /\ cfDirs' = <<>>
                          /\ cfTodo' = {}
                          /\ cfCreated' = {}
                          /\ cfWarnings' = 0
                     ELSE pc' = "tag" /\ UNCHANGED cfvars
             ELSE /\ HandleFailure(o, "tag")
                  /\ UNCHANGED <<mp3tags, cfvars>>
    /\ UNCHANGED <<tconst, files, flacs, resample, jobs, pipe>>
    /\ UNCHANGED fnvars

\* copy_files returned: transcode returns
TranscodeAncillaryDone ==
    /\ pc = "ancillary"
    /\ cfpc = "returned"
    /\ pc' = "done"
    /\ steps' = Append(steps, "Done")
    /\ UNCHANGED <<err, tconst, files, flacs, resample, jobs, pipe, mp3tags>>
    /\ UNCHANGED <<fnvars, dvars, cfvars>>

\* copy_files raised: the bare except clause
TranscodeAncillaryFailed ==
    /\ pc = "ancillary"
    /\ cfpc = "raised"
    /\ HandleFailure(cfErr, "ancillary")
    /\ UNCHANGED <<tconst, files, flacs, resample, jobs, pipe, mp3tags, steps>>
    /\ UNCHANGED <<fnvars, cfvars>>

\* the track sets found in the source directory
GoodCd == Flac(2, 16, 44100, GoodTags)
GoodHiRes == Flac(2, 24, 96000, [GoodTags EXCEPT !["album"] = <<"", "a">>])
Surround == Flac(6, 16, 44100, GoodTags)
OddRate == Flac(2, 24, 44056, GoodTags)
Untitled == Flac(2, 16, 44100, [GoodTags EXCEPT !["title"] = <<"">>])

SourceTracks == {GoodCd, GoodHiRes, Surround, OddRate, Untitled}

\* the files of the source directory that are no tracks
SourceAncillary ==
    {{}, {File(<<>>, "cover", ".jpg", "jpg bytes"),
          File(<<"CD2">>, "rip", ".log", "log bytes")}}

Init ==
    /\ pc = "called"
    /\ err = NoError
    /\ njobs \in {None} \cup (1..CpuCount)
    /\ parentIsDir \in BOOLEAN
    /\ dstExists \in (IF parentIsDir THEN BOOLEAN ELSE {FALSE})
    /\ dstExisted = dstExists
    /\ dstDirs = {}
    /\ dstFiles = InitialDstFiles(dstExists)
    /\ srcFlacs \in SeqsUpTo(SourceTracks, MaxTracks)
    /\ srcAnc \in SourceAncillary
    /\ files = <<>>
    /\ flacs = <<>>
    /\ resample = [kind |-> "none", rate |-> None]
    /\ jobs = <<>>
    /\ pipe = <<>>
    /\ mp3tags = <<>>
    /\ steps = <<>>
    /\ IdleFn /\ IdleCopyFiles /\ IdleBetter

Next ==
    \/ TranscodeGuard
    \/ TranscodeRead
    \/ TranscodeValidate
    \/ TranscodePlan
    \/ TranscodeMkdir
    \/ TranscodeBuild
    \/ PipelineStart
    \/ PipelineExit
    \/ PipelineFail
    \/ TranscodeTag
    \/ CopyFilesEnter
    \/ CopyFilesPop
    \/ CopyFilesVisit
    \/ CopyFilesReturn
    \/ TranscodeAncillaryDone
    \/ TranscodeAncillaryFailed

Spec == Init /\ [][Next]_vars

(***************************************************************************)
(* ApolloBetter (src/apollobetter.py): run, process_release and            *)
(* process_format.  transcode is called as one step whose outcomes are the *)
(* ways the transcode of this module ends.                                 *)
(***************************************************************************)
\* limit=None
NoLimit == -1

\* how transcode ends: what it raises (any exception other than
\* TranscodeError counts as "Exception") and whether dst exists afterwards
TranscodeOutcomes(existed) ==
    IF existed
    THEN {[raised |-> "TranscodeError", dst |-> TRUE]}
    ELSE {[raised |-> "none", dst |-> TRUE],
          [raised |-> "TranscodeError", dst |-> FALSE],
          [raised |-> "Exception", dst |-> FALSE],
          [raised |-> "Exception", dst |-> TRUE]}

\* the transcode directory and .torrent name of the format being processed
Key == <<candidates[ci].torrentid, cur>>

\* raise inside the try block of run: the finally clause comes next
BRaise(type, at) ==
    /\ berr' = [type |-> type, cause |-> type, at |-> at]
    /\ bpc' = "finally"

\* process_release returns n to the loop of run
ReleaseReturn(n) ==
    /\ run_n' = run_n + n
    /\ ci' = ci + 1
    /\ bpc' = "loop"
    /\ UNCHANGED berr

\* the error is raised whatever continue_on_error says
FormatFailedAlwaysRaise(type, at) == BRaise(type, at)

\* process_format on a recoverable error: print and return False with
\* continue_on_error, raise without
FormatFailed(type, at) ==
    IF continue_on_error
    THEN bpc' = "formats" /\ UNCHANGED berr
    ELSE BRaise(type, at)

LimitReachedOff(lim, n) == lim # NoLimit /\ n > lim

\* limit is not None and nuploaded >= limit
LimitReached(lim, n) == lim # NoLimit /\ n >= lim

\* candidates = self.api.get_better_snatched(), before the try block
RunFetch ==
    /\ bpc = "run"
    /\ \E ok \in BOOLEAN :
          IF ok
          THEN bpc' = "loop" /\ ci' = 1 /\ run_n' = 0 /\ UNCHANGED berr
          ELSE /\ bpc' = "raised"
               /\ berr' = [type |-> "ApiError", cause |-> "ApiError", at |-> "fetch"]
               /\ UNCHANGED <<ci, run_n>>
    /\ UNCHANGED <<bcfg, retval, rel_limit, rel_n, rel_todo, cur, bfs, bdone>>
    /\ UNCHANGED tother

\* the head of the loop over the candidates: break at the limit, else call
\* process_release with the formats needed and the rest of the limit
RunLoop ==
    /\ bpc = "loop"
    /\ IF ci > Len(candidates) \/ LimitReached(limit, run_n)
       THEN bpc' = "finally" /\ UNCHANGED <<rel_limit, rel_todo>>
       ELSE /\ bpc' = "get_torrent"
            /\ rel_limit' = IF limit # NoLimit THEN limit - run_n ELSE NoLimit
            /\ rel_todo' = candidates[ci].formats
    /\ UNCHANGED <<bcfg, berr, retval, ci, run_n, rel_n, cur, bfs, bdone>>
    /\ UNCHANGED tother

\* torrent = self.api.get_torrent(tid)
ReleaseGetTorrent ==
    /\ bpc = "get_torrent"
    /\ \E o \in {"ok", "ApiError"} :
          IF o = "ok"
          THEN bpc' = "checks" /\ UNCHANGED <<berr, ci, run_n>>
          ELSE IF continue_on_error
          THEN ReleaseReturn(0)
          ELSE BRaise("ApolloBetterError", "get_torrent") /\ UNCHANGED <<ci, run_n>>
    /\ UNCHANGED <<bcfg, retval, rel_limit, rel_n, rel_todo, cur, bfs, bdone>>
    /\ UNCHANGED tother

\* find_dir, the log score, --unique-groups (whose get_group can raise) and
\* check_source_release: the release is skipped or its formats are processed
ReleaseChecks ==
    /\ bpc = "checks"
    /\ \E o \in {"proceed", "skip"} \cup {x \in {"ApiError"} : unique_groups} :
          IF o = "proceed"
          THEN bpc' = "formats" /\ rel_n' = 0 /\ UNCHANGED <<berr, ci, run_n>>
          ELSE IF o = "skip"
          THEN ReleaseReturn(0) /\ UNCHANGED rel_n
          ELSE BRaise("ApiError", "get_group") /\ UNCHANGED <<ci, run_n, rel_n>>
    /\ UNCHANGED <<bcfg, retval, rel_limit, rel_todo, cur, bfs, bdone>>
    /\ UNCHANGED tother

\* the head of the loop over the formats, in the order the set yields them
ReleaseFormats ==
    /\ bpc = "formats"
    /\ IF rel_todo = {} \/ LimitReached(rel_limit, rel_n)
       THEN ReleaseReturn(rel_n) /\ UNCHANGED <<rel_todo, cur>>
       ELSE /\ \E f \in rel_todo : cur' = f /\ rel_todo' = rel_todo \ {f}
            /\ bpc' = "fmt_exists"
            /\ UNCHANGED <<berr, ci, run_n>>
    /\ UNCHANGED <<bcfg, retval, rel_limit, rel_n, bfs, bdone>>
    /\ UNCHANGED tother

\* if tfile_new.exists()
FormatExists ==
    /\ bpc = "fmt_exists"
    /\ IF Key \in torrentDir
       THEN FormatFailed("ApolloBetterError", "exists")
       ELSE bpc' = "fmt_transcode" /\ UNCHANGED berr
    /\ UNCHANGED <<bcfg, retval, bloop, bfs, bdone>>
    /\ UNCHANGED tother

\* transcode(path, dst_path, oformat) and except TranscodeError
FormatTranscode ==
    /\ bpc = "fmt_transcode"
    /\ transcodes' = transcodes + 1
    /\ \E o \in TranscodeOutcomes(Key \in outDirs) :
        /\ outDirs' = IF o.dst THEN outDirs \cup {Key} ELSE outDirs \ {Key}
        /\ IF o.raised = "none" THEN bpc' = "fmt_torrent" /\ UNCHANGED berr
           ELSE IF o.raised = "TranscodeError"
           THEN FormatFailed("TranscodeError", "transcode")
           ELSE BRaise(o.raised, "transcode")
    /\ UNCHANGED <<bcfg, retval, bloop, tmpFiles, torrentDir>>
    /\ UNCHANGED <<uploads, trues, cacheSaves>>
    /\ UNCHANGED tother

\* util.create_torrent_file(tfile, dst_path, ...), which can raise
FormatCreateTorrent ==
    /\ bpc = "fmt_torrent"
    /\ \E ok \in BOOLEAN :
          IF ok
          THEN /\ tmpFiles' = tmpFiles \cup {Key}
               /\ bpc' = "fmt_upload"
               /\ UNCHANGED berr
          ELSE /\ BRaise("Exception", "create_torrent")
               /\ tmpFiles' \in {tmpFiles, tmpFiles \cup {Key}}
    /\ UNCHANGED <<bcfg, retval, bloop, outDirs, torrentDir, bdone>>
    /\ UNCHANGED tother

\* the except clause removes the transcode directory but forgets the
\* temporary .torrent file
FormatUploadKeepsTorrent ==
    /\ bpc = "fmt_upload"
    /\ \E o \in {"ok", "ApiError"} :
          IF o = "ok"
          THEN /\ uploads' = uploads + 1
               /\ bpc' = "fmt_move"
               /\ UNCHANGED <<berr, outDirs, tmpFiles>>
          ELSE /\ outDirs' = outDirs \ {Key}
               /\ FormatFailed("ApiError", "upload")
               /\ UNCHANGED <<uploads, tmpFiles>>
    /\ UNCHANGED <<bcfg, retval, bloop, torrentDir, transcodes, trues, cacheSaves>>
    /\ UNCHANGED tother

\* self.api.add_format(...) and except ApiError: rmtree(dst_path),
\* os.remove(tfile)
FormatUpload ==
    /\ bpc = "fmt_upload"
    /\ \E o \in {"ok", "ApiError"} :
          IF o = "ok"
          THEN /\ uploads' = uploads + 1
               /\ bpc' = "fmt_move"
               /\ UNCHANGED <<berr, outDirs, tmpFiles>>
          ELSE /\ outDirs' = outDirs \ {Key}
               /\ tmpFiles' = tmpFiles \ {Key}
               /\ FormatFailed("ApiError", "upload")
               /\ UNCHANGED uploads
    /\ UNCHANGED <<bcfg, retval, bloop, torrentDir, transcodes, trues, cacheSaves>>
    /\ UNCHANGED tother

\* shutil.copyfile(tfile, tfile_new) and return True; a failing copyfile
\* may leave what it wrote
FormatMove ==
    /\ bpc = "fmt_move"
    /\ \E ok \in BOOLEAN :
          IF ok
          THEN /\ torrentDir' = torrentDir \cup {Key}
               /\ trues' = trues + 1
               /\ rel_n' = rel_n + 1
               /\ bpc' = "formats"
               /\ UNCHANGED berr
          ELSE /\ torrentDir' \in {torrentDir, torrentDir \cup {Key}}
               /\ BRaise("OSError", "move")
               /\ UNCHANGED <<trues, rel_n>>
    /\ UNCHANGED <<bcfg, retval, ci, run_n, rel_limit, rel_todo, cur>>
    /\ UNCHANGED <<outDirs, tmpFiles, uploads, transcodes, cacheSaves>>
    /\ UNCHANGED tother

\* the cache is saved after the loop instead of in a finally clause, so an
\* exception skips it
RunSaveAfterLoop ==
    /\ bpc = "finally"
    /\ IF berr = NoError
       THEN bpc' = "returned" /\ retval' = run_n /\ cacheSaves' = cacheSaves + 1
       ELSE bpc' = "raised" /\ UNCHANGED <<retval, cacheSaves>>
    /\ UNCHANGED <<bcfg, berr, bloop, bfs, uploads, transcodes, trues>>
    /\ UNCHANGED tother

\* finally: self.api.cache.save(), then return nuploaded or the exception
RunFinally ==
    /\ bpc = "finally"
    /\ cacheSaves' = cacheSaves + 1
    /\ IF berr = NoError
       THEN bpc' = "returned" /\ retval' = run_n
       ELSE bpc' = "raised" /\ UNCHANGED retval
    /\ UNCHANGED <<bcfg, berr, bloop, bfs, uploads, transcodes, trues>>
    /\ UNCHANGED tother

Formats == {"320", "V0"}

\* the candidates left by the filter on allowed_formats: each needs at least
\* one allowed format
Candidates ==
    {[i \in 1..Len(q) |-> [torrentid |-> i, formats |-> q[i]]] :
        q \in SeqsUpTo({{"320"}, Formats}, MaxCandidates)}

InitBetter ==
    /\ continue_on_error \in BOOLEAN
    /\ unique_groups \in BOOLEAN
    /\ limit \in {NoLimit} \cup (0..MaxLimit)
    /\ candidates \in Candidates
    /\ bpc = "run"
    /\ berr = NoError
    /\ retval = 0
    /\ ci = 0
    /\ run_n = 0
    /\ rel_limit = 0
    /\ rel_n = 0
    /\ rel_todo = {}
    /\ cur = "none"
    /\ outDirs \in {{}, {<<1, "V0">>}}
    /\ tmpFiles = {}
    /\ torrentDir \in {{}, {<<1, "320">>}}
    /\ uploads = 0
    /\ transcodes = 0
    /\ trues = 0
    /\ cacheSaves = 0
    /\ IdleFn /\ IdleTranscode /\ IdleDst /\ IdleCopyFiles

NextBetter ==
    \/ RunFetch
    \/ RunLoop
    \/ ReleaseGetTorrent
    \/ ReleaseChecks
    \/ ReleaseFormats
    \/ FormatExists
    \/ FormatTranscode
    \/ FormatCreateTorrent
    \/ FormatUpload
    \/ FormatMove
    \/ RunFinally

SpecBetter == InitBetter /\ [][NextBetter]_vars

(***************************************************************************)
(* The resample planner applied to one track.                              *)
(***************************************************************************)
BitDepths == {8, 12, 16, 20, 24, 32}
SampleRates ==
    {0, 8000, 22050, 32000, 44056, 44100, 48000, 88200, 96000, 132300,
     144000, 176400, 192000}

InitResample ==
    /\ fn = "compute_resample"
    /\ arg \in {Flac(2, b, r, GoodTags) : b \in BitDepths, r \in SampleRates}
    /\ res = [kind |-> "none", rate |-> None]
    /\ returned = FALSE
    /\ IdleTranscode /\ IdleDst /\ IdleCopyFiles /\ IdleBetter

CallComputeResample ==
    /\ fn = "compute_resample"
    /\ ~returned
    /\ res' = compute_resample(arg)
    /\ returned' = TRUE
    /\ UNCHANGED <<fn, arg, tvars, dvars, cfvars>>

NextResample == CallComputeResample

SpecResample == InitResample /\ [][NextResample]_vars

(***************************************************************************)
(* The source validator applied to one track set.                          *)
(***************************************************************************)
ValChannels == {2, 6}
ValFormats == {<<16, 44100>>, <<24, 96000>>, <<24, 44056>>}
ValTracks ==
    {Flac(c, f[1], f[2], GoodTags) : c \in ValChannels, f \in ValFormats}

\* the track sets of up to n tracks in which at most one track, at any
\* position, has tags other than GoodTags
ValTrackSets(n) ==
    LET plain == SeqsUpTo(ValTracks, n)
    IN  plain \cup
        UNION {{[ts EXCEPT ![i].tags = t] : i \in 1..Len(ts), t \in TagMaps} :
                  ts \in plain}

InitValidate ==
    /\ fn = "check_flacs"
    /\ arg \in ValTrackSets(MaxTracks)
    /\ res = "pending"
    /\ returned = FALSE
    /\ IdleTranscode /\ IdleDst /\ IdleCopyFiles /\ IdleBetter

CallCheckFlacs ==
    /\ fn = "check_flacs"
    /\ ~returned
    /\ res' = check_flacs(arg)
    /\ returned' = TRUE
    /\ UNCHANGED <<fn, arg, tvars, dvars, cfvars>>

NextValidate == CallCheckFlacs

SpecValidate == InitValidate /\ [][NextValidate]_vars

(***************************************************************************)
(* The tag propagator applied to one source and one destination.           *)
(***************************************************************************)
CopyKeys == {"title", "genre", "comment", "waveformatextensible_channel_mask"}
CopyValues == {<<"">>, <<"a">>, <<"a", "b">>}

\* every tag map over a subset of CopyKeys
CopySources ==
    UNION {[ks -> CopyValues] : ks \in SUBSET CopyKeys}

\* the destination before the copy: no tags, or a title of its own
CopyDests == {<<>>, [k \in {"title"} |-> <<"old">>]}

InitCopyTags ==
    /\ fn = "copy_tags"
    /\ arg \in [src : CopySources, dst : CopyDests, kind : {"EasyMP3", "FLAC"}]
    /\ res = <<>>
    /\ returned = FALSE
    /\ IdleTranscode /\ IdleDst /\ IdleCopyFiles /\ IdleBetter

CallCopyTags ==
    /\ fn = "copy_tags"
    /\ ~returned
    /\ res' = copy_tags(arg.src, arg.dst, arg.kind)
    /\ returned' = TRUE
    /\ UNCHANGED <<fn, arg, tvars, dvars, cfvars>>

NextCopyTags == CallCopyTags

SpecCopyTags == InitCopyTags /\ [][NextCopyTags]_vars

(***************************************************************************)
(* The ancillary copier applied to one source tree and one destination.    *)
(***************************************************************************)
TreeCandidates ==
    {File(<<>>, "cover", ".jpg", "jpg bytes"),
     File(<<>>, "01", ".flac", "flac bytes"),
     File(<<>>, "README", "", "readme bytes"),
     File(<<"cd1">>, "rip", ".log", "log bytes"),
     File(<<"cd1">>, "folder", ".JPG", "JPG bytes"),
     File(<<"cd1", "scans">>, "back", ".png", "png bytes")}

SourceTrees == {t \in SUBSET TreeCandidates : Cardinality(t) <= MaxFiles}

\* what the destination holds before the call: nothing, a transcoded track,
\* or an older file at the path of an ancillary file
DestTrees ==
    {{}, {File(<<>>, "01", ".mp3", "mp3 bytes")},
     {File(<<>>, "cover", ".jpg", "old bytes")}}

InitCopyFiles ==
    /\ cfpc = "called"
    /\ cfErr = "none"
    /\ cfSrc \in SourceTrees
    /\ cfSuffixes \in {SuffixNone, SuffixSet(ALLOWED_EXTENSIONS)}
    /\ cfDirs = <<>>
    /\ cfTodo = {}
    /\ cfCreated = {}
    /\ cfWarnings = 0
    /\ dstExists \in BOOLEAN
    /\ dstDirs = {}
    /\ dstFiles \in (IF dstExists THEN DestTrees ELSE {{}})
    /\ IdleFn /\ IdleTranscode /\ IdleBetter

NextCopyFiles ==
    \/ CopyFilesEnter
    \/ CopyFilesPop
    \/ CopyFilesVisit
    \/ CopyFilesReturn

SpecCopyFiles == InitCopyFiles /\ [][NextCopyFiles]_vars

(***************************************************************************)
(* Claims about transcode.                                                 *)
(***************************************************************************)
InSteps(x) == \E i \in 1..Len(steps) : steps[i] = x

DestinationGone == ~dstExists /\ dstDirs = {} /\ dstFiles = {}

\* C1: after a call of transcode that fails, at whatever step, the
\* destination path exists if and only if it existed before the call.
C1_FailureKeepsDestinationExistence ==
    pc = "raised" => (dstExists <=> dstExisted)

\* C2: once the destination is created, a failure of the pipeline of any
\* track, of a tag copy or of the ancillary copy deletes the whole
\* destination tree before the error reaches the caller.
C2_LateFailureRollsBack ==
    (pc = "raised" /\ err.at \in {"pipeline", "tag", "ancillary"}) =>
        DestinationGone

\* the pipeline of track 2 fails after track 1 was transcoded
C2_Witness ==
    /\ pc = "raised"
    /\ err.at = "pipeline"
    /\ pipe = <<"ok", "failed">>
    /\ DestinationGone

\* C3: with the destination existing, or its parent no directory, the call
\* is rejected with a TranscodeError before any track is read, any
\* directory created or any process started, and the filesystem is as it
\* was.
C3_GuardRejectsWithoutEffects ==
    (pc # "called" /\ (dstExisted \/ ~parentIsDir)) =>
        /\ pc = "raised"
        /\ err = [type |-> "TranscodeError", cause |-> "TranscodeError",
                  at |-> "guard"]
        /\ steps = <<>>
        /\ files = <<>> /\ flacs = <<>>
        /\ jobs = <<>> /\ pipe = <<>>
        /\ mp3tags = <<>>
        /\ cfpc = "idle" /\ cfCreated = {}
        /\ dstExists = dstExisted
        /\ dstDirs = {}
        /\ dstFiles = InitialDstFiles(dstExisted)

C3_Witness ==
    /\ pc = "raised"
    /\ err.at = "guard"
    /\ ~dstExisted
    /\ ~parentIsDir
    /\ Len(srcFlacs) = 2

\* C4: when the validator reports a problem, transcode raises it before the
\* destination is created: no directory, no pipeline, filesystem unchanged.
ValidatorProblems == {MsgChannels, MsgInconsistent, MsgRate, MsgTags}

C4_ValidationFailsBeforeDestination ==
    (InSteps("Validating") /\ check_flacs(flacs) \in ValidatorProblems) =>
        /\ pc = "raised"
        /\ err.type = "TranscodeError"
        /\ err.at = "validate"
        /\ ~InSteps("CreatingDestination")
        /\ jobs = <<>> /\ pipe = <<>>
        /\ DestinationGone

C4_Witness ==
    /\ pc = "raised"
    /\ err.at = "validate"
    /\ Len(flacs) = 2
    /\ check_flacs(flacs) = MsgTags

\* C5: transcode returns normally, with the destination in place, only if
\* the pipeline of every track finished successfully, the tags of every
\* track were copied and the ancillary copy finished without error.
C5_DoneOnlyAfterEveryStep ==
    pc = "done" =>
        /\ dstExists
        /\ err = NoError
        /\ Len(flacs) >= 1
        /\ Len(pipe) = Len(flacs)
        /\ \A i \in 1..Len(pipe) : pipe[i] = "ok"
        /\ \A i \in 1..Len(files) : TranscodedFile(files[i]) \in dstFiles
        /\ Len(mp3tags) = Len(flacs)
        /\ cfpc = "returned"
        /\ cfErr = "none"

C5_Witness ==
    /\ pc = "done"
    /\ Len(flacs) = 2
    /\ srcAnc # {}
    /\ srcAnc \subseteq dstFiles

\* C11: a failure of the metadata copy (copystat) of an ancillary file, of
\* any kind, is tolerated: it never leaves copy_files as an exception and
\* never makes transcode roll back.
C11_MetadataFailureTolerated ==
    /\ cfErr \notin {"copystat PermissionError", "copystat OSError"}
    /\ pc = "raised" =>
          err.cause \notin {"copystat PermissionError", "copystat OSError"}

\* C12 as claimed: when transcode fails in the pipeline run, a tag copy or
\* the ancillary copy, the destination is deleted and the error that
\* reaches the caller is the original error, not a replacement.
FailedInTry == pc = "raised" /\ err.at \in {"pipeline", "tag", "ancillary"}

C12_OriginalErrorSurfaced ==
    FailedInTry => (DestinationGone /\ err.type = err.cause)

\* C12 as amended: the destination is deleted; a tag-copy or ancillary-copy
\* failure reaches the caller as the original error, a pipeline failure as
\* a TranscodeError made from the PipelineError.
C12_OriginalOrTranscodeError ==
    FailedInTry =>
        /\ DestinationGone
        /\ err.at = "pipeline" =>
              (err.cause = "PipelineError" /\ err.type = "TranscodeError")
        /\ err.at = "tag" => (err.cause = "MutagenError" /\ err.type = err.cause)
        /\ err.at = "ancillary" => (err.cause = cfErr /\ err.type = err.cause)

C12_Witness ==
    /\ pc = "raised"
    /\ err.at = "ancillary"
    /\ err.type = "copyfile OSError"
    /\ Len(mp3tags) = 2
    /\ DestinationGone

\* C13: with a parallelism hint njobs, transcode never runs more than njobs
\* pipelines at once.
C13_ParallelismBoundedByNjobs ==
    njobs # None => Cardinality(Running) <= njobs

\* C16: the destination is created only after all pipelines are built,
\* right before the pipelines run: while transcode holds a destination it
\* created, every pipeline is built and the run has begun.
C16_DestinationCreatedAfterBuild ==
    (dstExists /\ ~dstExisted) =>
        /\ Len(jobs) = Len(files)
        /\ pc \in {"run", "tag", "ancillary", "done"}

\* C17: no tag copy starts before every pipeline has finished successfully,
\* the ancillary copy starts only after the tag copy of every track, and
\* after a pipeline failure there is no tag copy and no ancillary copy.
AllPipelinesOk ==
    Len(pipe) = Len(flacs) /\ \A i \in 1..Len(pipe) : pipe[i] = "ok"

C17_TagsAfterPipelinesAncillaryAfterTags ==
    /\ (pc = "tag" \/ Len(mp3tags) > 0) => AllPipelinesOk
    /\ cfpc # "idle" => (AllPipelinesOk /\ Len(mp3tags) = Len(flacs))
    /\ (\E i \in 1..Len(pipe) : pipe[i] \in {"failed", "killed"}) =>
          (mp3tags = <<>> /\ cfpc = "idle" /\ pc = "raised")

\* the second track is being tagged, the ancillary copy has not begun
C17_Witness ==
    /\ pc = "tag"
    /\ Len(flacs) = 2
    /\ Len(mp3tags) = 1
    /\ cfpc = "idle"

\* C18: whenever transcode creates the destination, the track set is
\* non-empty, every track has at most 2 channels, all tracks share one
\* (bit depth, sample rate) and the planner accepts that rate; an empty
\* source never leads to a created destination.
TrackSetInvariant(ts) ==
    /\ Len(ts) >= 1
    /\ \A i \in 1..Len(ts) : ts[i].channels <= 2
    /\ \A i, j \in 1..Len(ts) :
          /\ ts[i].bits_per_sample = ts[j].bits_per_sample
          /\ ts[i].sample_rate = ts[j].sample_rate
    /\ \A i \in 1..Len(ts) :
          \/ ts[i].sample_rate % 44100 = 0
          \/ ts[i].sample_rate % 48000 = 0

C18_DestinationOnlyForValidTrackSet ==
    /\ InSteps("CreatingDestination") => TrackSetInvariant(flacs)
    /\ (dstExists /\ ~dstExisted) => TrackSetInvariant(srcFlacs)
    /\ Len(srcFlacs) = 0 => (dstExists <=> dstExisted)

C18_Witness ==
    /\ pc = "build"
    /\ dstExists /\ ~dstExisted
    /\ Len(flacs) = 2
    /\ flacs[1].bits_per_sample = 24

\* C19: one pipeline per source track, each of two stages: the resample to
\* the run's target rate if the plan is a rate, the plain decode otherwise,
\* then the encode command writing the track's destination path; every
\* pipeline uses the plan the planner gives for any track of the set.
PipelineFits(i, k) ==
    LET plan == compute_resample(flacs[k])
    IN  /\ Len(jobs[i]) = 2
        /\ jobs[i][1].file = files[i]
        /\ plan.kind = "rate" =>
              (jobs[i][1].prog = "sox" /\ jobs[i][1].rate = plan.rate)
        /\ plan.kind = "none" => jobs[i][1].prog = "flac"
        /\ plan.kind \in {"rate", "none"}
        /\ jobs[i][2].prog = "encode"
        /\ jobs[i][2].file = TranscodedFile(files[i])

C19_OnePipelinePerTrack ==
    /\ Len(jobs) <= Len(files)
    /\ pc \in {"run", "tag", "ancillary", "done"} => Len(jobs) = Len(files)
    /\ \A i \in 1..Len(jobs) : \A k \in 1..Len(flacs) : PipelineFits(i, k)

C19_Witness ==
    /\ pc = "run"
    /\ Len(jobs) = 2
    /\ jobs[2][1] = [prog |-> "sox", file |-> TrackFile(2), rate |-> 48000]
    /\ jobs[1][2].file = File(<<>>, "01", ".mp3", "mp3 audio")

(***************************************************************************)
(* Claims about ApolloBetter.                                              *)
(***************************************************************************)
\* every way transcode ends in this module is one of TranscodeOutcomes
TranscodeOutcomesCoverTranscode ==
    pc \in {"done", "raised"} =>
        [raised |-> IF err.type \in {"none", "TranscodeError"}
                    THEN err.type ELSE "Exception",
         dst |-> dstExists] \in TranscodeOutcomes(dstExisted)

\* C14: with a limit L, never more than L torrents are uploaded; once L are
\* uploaded no further release or format is transcoded or uploaded; and run
\* returns the number of process_format calls that returned True.
LimitSpent == limit # NoLimit /\ uploads >= limit

C14_NeverOverLimit ==
    /\ limit # NoLimit => uploads <= limit
    /\ limit # NoLimit => trues <= limit
    /\ bpc = "returned" => retval = trues

C14_NothingAfterLimit ==
    LimitSpent =>
        /\ transcodes' = transcodes
        /\ uploads' = uploads
        /\ bpc' \notin {"get_torrent", "checks", "fmt_exists", "fmt_transcode",
                         "fmt_torrent", "fmt_upload"}

C14_UploadsWithinLimit ==
    []C14_NeverOverLimit /\ [][C14_NothingAfterLimit]_vars

\* the run stopped at the limit with a candidate left
C14_Witness ==
    /\ bpc = "returned"
    /\ limit = 1
    /\ uploads = 1
    /\ retval = 1
    /\ Len(candidates) = 2
    /\ ci = 2

\* C15: with continue_on_error, a failed torrent-info request, an existing
\* .torrent file, any failure of the transcode step and a failed upload do
\* not abort the run; without it the first such error is raised.
C15_ContinueOnError ==
    /\ (continue_on_error /\ berr # NoError) =>
          berr.at \notin {"get_torrent", "exists", "transcode", "upload"}
    /\ (~continue_on_error /\ bpc = "returned") => berr = NoError

\* C20: when process_format fails at the existing-torrent check, the
\* transcode, the torrent-file creation or the upload, it has written no new
\* .torrent file to torrent_dir; and when the upload fails, the transcode
\* directory and the temporary .torrent file are removed before it returns
\* or raises.
C20_NoTorrentYet ==
    /\ bpc \in {"fmt_transcode", "fmt_torrent", "fmt_upload", "fmt_move"} =>
          Key \notin torrentDir
    /\ (bpc \in {"finally", "raised"}
          /\ berr.at \in {"transcode", "create_torrent", "upload"}) =>
          Key \notin torrentDir
    /\ berr.at = "upload" => (Key \notin outDirs /\ Key \notin tmpFiles)

C20_FailureStep ==
    /\ bpc # "fmt_move" => torrentDir' = torrentDir
    /\ (bpc = "fmt_move" /\ torrentDir' # torrentDir) =>
          (trues' = trues + 1 \/ berr'.at = "move")
    /\ (bpc = "fmt_upload" /\ bpc' # "fmt_move") =>
          /\ <<candidates[ci].torrentid, cur>> \notin outDirs'
          /\ <<candidates[ci].torrentid, cur>> \notin tmpFiles'

C20_FailedFormatLeavesNoTorrent ==
    []C20_NoTorrentYet /\ [][C20_FailureStep]_vars

\* the upload of the second format failed after the first one succeeded
C20_Witness ==
    /\ bpc = "raised"
    /\ berr.at = "upload"
    /\ trues = 1
    /\ transcodes = 2
    /\ Cardinality(torrentDir) = 1
    /\ Cardinality(outDirs) = 1
    /\ Cardinality(tmpFiles) = 1

\* C21: once the candidates are fetched, run saves the API cache exactly
\* once on every way out of the candidate loop (completion, stop at the
\* limit, abort by an exception of a release), and not before it leaves.
InCandidateLoop ==
    bpc \in {"loop", "get_torrent", "checks", "formats", "fmt_exists",
             "fmt_transcode", "fmt_torrent", "fmt_upload", "fmt_move",
             "finally"}

LeftCandidateLoop ==
    bpc = "returned" \/ (bpc = "raised" /\ berr.at # "fetch")

C21_CacheSavedOnceOnExit ==
    /\ InCandidateLoop => cacheSaves = 0
    /\ LeftCandidateLoop => cacheSaves = 1
    /\ (bpc = "returned" /\ ~LimitReached(limit, run_n)) => ci > Len(candidates)

\* a release raised after an earlier format was uploaded
C21_Witness ==
    /\ bpc = "raised"
    /\ berr.at \in {"get_torrent", "get_group", "exists", "transcode",
                     "create_torrent", "upload", "move"}
    /\ uploads >= 1
    /\ cacheSaves = 1

\* the loop ran out of candidates below the limit
C21_CompletionSaved ==
    /\ bpc = "returned"
    /\ Len(candidates) >= 1
    /\ ci > Len(candidates)
    /\ ~LimitReached(limit, run_n)
    /\ cacheSaves = 1

\* the loop stopped at the limit with a candidate left
C21_LimitStopSaved ==
    /\ bpc = "returned"
    /\ LimitReached(limit, run_n)
    /\ ci <= Len(candidates)
    /\ cacheSaves = 1

(***************************************************************************)
(* Claims about the resample planner, the validator and the tag copy.      *)
(***************************************************************************)
IsMultiple(rate, base) == \E n \in 0..8 : rate = n * base

\* a tag value with no content: every string of the list is empty
IsEmptyValue(v) == \A i \in 1..Len(v) : v[i] = ""

ResampleReturned == fn = "compute_resample" /\ returned
ValidateReturned == fn = "check_flacs" /\ returned
CopyTagsReturned == fn = "copy_tags" /\ returned

\* C6: compute_resample returns no resample for at most 16 bits at 44100 or
\* 48000 Hz, otherwise 44100 for a multiple of 44100, otherwise 48000 for a
\* multiple of 48000, otherwise it raises; (16,44100) gives none, (24,88200)
\* 44100, (24,96000) 48000, (24,44056) the error; and no rate is returned
\* for a sample rate that is a multiple of neither base rate.
C6_ResamplePolicy ==
    ResampleReturned =>
        LET b == arg.bits_per_sample
            r == arg.sample_rate
            plain == b <= 16 /\ r \in {44100, 48000}
            m44 == IsMultiple(r, 44100)
            m48 == IsMultiple(r, 48000)
        IN  /\ plain => res.kind = "none"
            /\ (~plain /\ m44) => (res.kind = "rate" /\ res.rate = 44100)
            /\ (~plain /\ ~m44 /\ m48) => (res.kind = "rate" /\ res.rate = 48000)
            /\ (~plain /\ ~m44 /\ ~m48) => res.kind = "TranscodeError"
            /\ (b = 16 /\ r = 44100) => res.kind = "none"
            /\ (b = 24 /\ r = 88200) => res.rate = 44100
            /\ (b = 24 /\ r = 96000) => res.rate = 48000
            /\ (b = 24 /\ r = 44056) => res.kind = "TranscodeError"
            /\ (~m44 /\ ~m48) => res.kind # "rate"

C6_Witness ==
    /\ ResampleReturned
    /\ arg.bits_per_sample = 24
    /\ arg.sample_rate = 96000
    /\ res = [kind |-> "rate", rate |-> 48000]

\* the checks of check_flacs, stated on the track set
TooManyChannels(ts) == \E i \in 1..Len(ts) : ts[i].channels > 2
DiffersFromFirst(ts) ==
    \E i \in 1..Len(ts) :
        <<ts[i].bits_per_sample, ts[i].sample_rate>>
            # <<ts[1].bits_per_sample, ts[1].sample_rate>>
PlannerRejects(ts) ==
    ~IsMultiple(ts[1].sample_rate, 44100) /\ ~IsMultiple(ts[1].sample_rate, 48000)
EarlierChecksPass(ts) ==
    Len(ts) > 0 /\ ~TooManyChannels(ts) /\ ~DiffersFromFirst(ts) /\ ~PlannerRejects(ts)
LacksRequiredTag(ts) ==
    \E i \in 1..Len(ts) : \E k \in REQUIRED_TAGS :
        k \notin DOMAIN ts[i].tags \/ IsEmptyValue(ts[i].tags[k])
KeyAbsentOrSingleBlank(ts) ==
    \E i \in 1..Len(ts) : \E k \in REQUIRED_TAGS :
        k \notin DOMAIN ts[i].tags \/ ts[i].tags[k] = <<"">>

\* C7: for a track set that passes the earlier checks, check_flacs reports
\* missing tags exactly when some track lacks a required key or holds an
\* empty value for one (a list of nothing but empty strings).
C7_MissingTagsReported ==
    (ValidateReturned /\ EarlierChecksPass(arg)) =>
        ((res = MsgTags) <=> LacksRequiredTag(arg))

\* C8: check_flacs reports the first applicable problem in the order
\* channels, inconsistent format, rejected rate, missing tags, and returns
\* no problem only if none of the four applies.
C8_ChecksInOrder ==
    (ValidateReturned /\ Len(arg) > 0) =>
        /\ TooManyChannels(arg) => res = MsgChannels
        /\ (~TooManyChannels(arg) /\ DiffersFromFirst(arg)) => res = MsgInconsistent
        /\ (~TooManyChannels(arg) /\ ~DiffersFromFirst(arg) /\ PlannerRejects(arg))
              => res = MsgRate
        /\ (EarlierChecksPass(arg) /\ KeyAbsentOrSingleBlank(arg)) => res = MsgTags
        /\ res = "None" =>
              /\ ~TooManyChannels(arg)
              /\ ~DiffersFromFirst(arg)
              /\ ~PlannerRejects(arg)
              /\ ~KeyAbsentOrSingleBlank(arg)

\* a track set that breaks the first two rules and a later one
C8_Witness ==
    /\ ValidateReturned
    /\ Len(arg) = 2
    /\ TooManyChannels(arg)
    /\ DiffersFromFirst(arg)
    /\ KeyAbsentOrSingleBlank(arg)
    /\ res = MsgChannels

\* C9: after copy_tags the destination holds tag k with the source's value
\* exactly for the source keys whose value is non-empty and, for an MP3
\* destination, that belong to the EasyID3 vocabulary.
C9_TagsCopiedIffNonEmptyAndValid ==
    CopyTagsReturned =>
        \A k \in CopyKeys :
            (k \in DOMAIN res /\ k \in DOMAIN arg.src /\ res[k] = arg.src[k])
            <=> /\ k \in DOMAIN arg.src
                /\ ~IsEmptyValue(arg.src[k])
                /\ (arg.kind = "EasyMP3" => k \in EasyID3ValidKeys)

\* C10: when copy_files completes with dst_dir an existing directory, every
\* file under src_dir with an allowed suffix has a counterpart with the same
\* content at the same relative path under dst_dir; and copy_files never
\* creates a file whose suffix is outside the allowed set, so no .flac file
\* when the allowed set is ALLOWED_EXTENSIONS.
SuffixAllowed(f) == cfSuffixes.none \/ f.suffix \in cfSuffixes.set

C10_AncillaryComplete ==
    /\ (cfpc = "returned" /\ dstExists) =>
          \A f \in cfSrc :
              SuffixAllowed(f) =>
                  \E g \in dstFiles : SamePath(g, f) /\ g.content = f.content
    /\ \A d \in cfCreated : SuffixAllowed(d)
    /\ cfSuffixes = SuffixSet(ALLOWED_EXTENSIONS) =>
          \A d \in cfCreated : d.suffix # FlacSuffix

\* a completed copy of a tree with an allowed file two levels down, a .flac
\* file and an older file in the way
C10_Witness ==
    /\ cfpc = "returned"
    /\ dstExists
    /\ cfSuffixes = SuffixSet(ALLOWED_EXTENSIONS)
    /\ \E f \in cfSrc : f.suffix = FlacSuffix
    /\ \E f \in cfSrc : Len(f.dir) = 2 /\ f \in dstFiles
    /\ File(<<>>, "cover", ".jpg", "jpg bytes") \in cfSrc \cap dstFiles
    /\ cfWarnings > 0

====
